---- MODULE Spec2Model ----
(***************************************************************************)
(* Model of lax::svd (src/lax/src/svd.rs): the driver that wraps LAPACK's  *)
(* *gesvd for f32, f64, c32 and c64.  One call of SVD_::svd is a sequence  *)
(* of steps (resolve flags and allocate, workspace query, status check,    *)
(* scratch allocation, execution, status check and return); the kernel is  *)
(* an external collaborator whose status code and reported workspace size  *)
(* are chosen nondeterministically.                                        *)
(*                                                                         *)
(* Machine integers.  TLC's integers are 32 bit, so every usize is kept as *)
(* its 8 little-endian bytes and every i32 handed to the kernel as its 4   *)
(* two's-complement bytes; i32 dimensions, which are non-negative, are     *)
(* plain integers.                                                         *)
(***************************************************************************)
EXTENDS Integers, Sequences, FiniteSets, TLC

\* ------------------------------------------------------------------ bounds
MaxDim == 1
MaxInfo == 2
MaxWork == 1

\* Dimensions beyond the small ones: the largest side whose square fits an
\* i32, the smallest whose square does not, and one whose square is 2^32.
BigDims == {46340, 46341, 65536}
Dims == (0 .. MaxDim) \cup BigDims

\* ------------------------------------------------------- machine integers
Byte == 2 ^ 8

\* The 8 little-endian bytes of a non-negative i32 x, as a usize.
W(x) ==
  << x % Byte, (x \div Byte) % Byte, (x \div (Byte ^ 2)) % Byte,
     (x \div (Byte ^ 3)) % Byte, 0, 0, 0, 0 >>

\* Column k (0-based) of the schoolbook product of two 8-byte numbers.
RECURSIVE ColSum(_, _, _, _)
ColSum(a, b, k, i) ==
  IF i > k THEN 0
  ELSE (IF i <= 7 /\ k - i <= 7 THEN a[i + 1] * b[k - i + 1] ELSE 0)
       + ColSum(a, b, k, i + 1)

RECURSIVE MulFrom(_, _, _, _, _)
MulFrom(a, b, k, carry, n) ==
  IF k >= n THEN <<>>
  ELSE LET t == ColSum(a, b, k, 0) + carry
       IN  <<t % Byte>> \o MulFrom(a, b, k + 1, t \div Byte, n)

\* The exact product of two non-negative i32 values (below 2^62), 8 bytes.
WMul(x, y) == MulFrom(W(x), W(y), 0, 0, 8)

\* The i32 a wrapping multiplication leaves: the low 4 bytes of the product.
WrapMulI32(x, y) == SubSeq(WMul(x, y), 1, 4)

\* Whether the exact product of two non-negative i32 values fits an i32.
FitsI32(p) == p[4] < 128 /\ \A i \in 5 .. 8 : p[i] = 0

\* `x as usize` of an i32 given by its 4 bytes: sign extension to 64 bits.
I32AsUsize(b) ==
  LET ext == IF b[4] >= 128 THEN 255 ELSE 0
  IN  b \o << ext, ext, ext, ext >>

\* `x as i32` of a usize: truncation to the low 4 bytes.
UsizeAsI32(w) == SubSeq(w, 1, 4)

\* The i32 -1, the scratch-length argument of a workspace query.
MinusOne == <<255, 255, 255, 255>>

\* 5 * k as usize, for a non-negative i32 k.
FiveTimes(k) == WMul(5, k)

\* ------------------------------------------------------------ the program
VARIABLES
  scalar,      \* the scalar kind the call is instantiated for
  checked,     \* whether the build checks integer overflow (debug profile)
  l,           \* MatrixLayout of the call
  calc_u,      \* caller's request for U
  calc_vt,     \* caller's request for Vt
  a,           \* the caller's buffer: [id, state]
  pc,          \* position of the call
  ju, jvt,     \* resolved flags for the kernel's U slot and Vt slot
  m, n,        \* dimensions handed to the kernel
  u, vt, s,    \* output buffers (optional vectors)
  rwork,       \* real scratch array of the complex path
  info,        \* status code written by the kernel
  work_size,   \* the one-element query scratch buffer
  work,        \* the scratch buffer of the execution
  lwork,       \* length of the scratch buffer (usize)
  calls,       \* the kernel invocations made so far (their arguments)
  resps,       \* what the kernel answered to each returned invocation
  result,      \* what the call returned
  phase,       \* 1: first call, 2: the call on the mirrored layout
  first        \* the first call's invocations and result, once it is over

vars == << scalar, checked, l, calc_u, calc_vt, a, pc, ju, jvt, m, n, u, vt, s,
           rwork, info, work_size, work, lwork, calls, resps, result, phase,
           first >>

\* FlagSVD, `as u8`.
All == 65
No == 78

from_bool(calc_uv) == IF calc_uv THEN All ELSE No

Scalars == {"f32", "f64", "c32", "c64"}
IsComplex(sc) == sc \in {"c32", "c64"}

\* size_of::<Self>() in bytes.
ElemSize(sc) == CASE sc = "f32" -> 4 [] sc = "f64" -> 8 [] sc = "c32" -> 8 [] sc = "c64" -> 16

\* MatrixLayout::F / MatrixLayout::C describing a logical rows x cols matrix.
Layouts == [tag : {"F", "C"}, rows : Dims, cols : Dims]

\* MatrixLayout::lda(): the leading dimension.
Lda(lay) == IF lay.tag = "F" THEN lay.rows ELSE lay.cols

\* MatrixLayout::len(): the other dimension.
LayoutLen(lay) == IF lay.tag = "F" THEN lay.cols ELSE lay.rows

\* Option<Vec<_>>: presence, length (usize) and what filled it.
NoneVec == [some |-> FALSE, len |-> W(0), fill |-> "none"]
ZeroVec(len) == [some |-> TRUE, len |-> len, fill |-> "zero"]
Filled(v, tag) == IF v.some THEN [v EXCEPT !.fill = tag] ELSE v

\* vec![zero; len] succeeds unless len * size_of exceeds isize::MAX, which
\* panics with "capacity overflow": for an element size that is a power of
\* two, len * size <= 2^63 - 1 iff the top byte of len is below 128 / size.
\* (Memory is taken to suffice for every request within that limit.)
CapacityOk(len, size) == len[8] < 128 \div size

\* (d * d) as usize, d an i32: [ok, len].  A checked build panics on
\* overflow; an unchecked build wraps and sign-extends.
SquareAsUsize(d, chk) ==
  IF chk /\ ~FitsI32(WMul(d, d))
  THEN [ok |-> FALSE, len |-> W(0)]
  ELSE [ok |-> TRUE, len |-> I32AsUsize(WrapMulI32(d, d))]

\* match flag { All => Some(vec![zero; (d * d) as usize]), No => None }:
\* [ok, vec].
AllocFactor(flag, d, chk, size) ==
  IF flag = No THEN [ok |-> TRUE, vec |-> NoneVec]
  ELSE LET sq == SquareAsUsize(d, chk)
       IN  IF sq.ok /\ CapacityOk(sq.len, size)
           THEN [ok |-> TRUE, vec |-> ZeroVec(sq.len)]
           ELSE [ok |-> FALSE, vec |-> NoneVec]

Min(x, y) == IF x < y THEN x ELSE y

\* Error values of crate::error and results of a call.
NoErr == [type |-> "none", code |-> 0]
NoResult == [kind |-> "none", err |-> NoErr, s |-> NoneVec, u |-> NoneVec, vt |-> NoneVec]
Panic == [NoResult EXCEPT !.kind = "panic"]
Abort == [NoResult EXCEPT !.kind = "abort"]
Err(e) == [NoResult EXCEPT !.kind = "Err", !.err = e]

\* i32::as_lapack_result(): [ok, err].
as_lapack_result(i) ==
  IF i > 0 THEN [ok |-> FALSE, err |-> [type |-> "ConvergenceFailure", code |-> i]]
  ELSE IF i < 0 THEN [ok |-> FALSE, err |-> [type |-> "InvalidArgument", code |-> -i]]
  ELSE [ok |-> TRUE, err |-> NoErr]

\* The value the kernel leaves in work_size[0]: a non-negative whole number
\* (mag, as 8 bytes), or a value to_usize() cannot convert.
NumWork(w) == [kind |-> "num", mag |-> w]
TwoTo31 == << 0, 0, 0, 128, 0, 0, 0, 0 >>
I32MaxW == << 255, 255, 255, 127, 0, 0, 0, 0 >>
WorkVals ==
  {NumWork(W(i)) : i \in 0 .. MaxWork} \cup {NumWork(I32MaxW), NumWork(TwoTo31)}
  \cup {[kind |-> k, mag |-> W(0)] : k \in {"negative", "nan", "huge"}}
ZeroWork == NumWork(W(0))

\* ToPrimitive::to_usize(): [some, val].
to_usize(x) ==
  IF x.kind = "num" THEN [some |-> TRUE, val |-> x.mag]
  ELSE [some |-> FALSE, val |-> W(0)]

InfoVals == (-MaxInfo) .. MaxInfo

\* What the kernel answers to one invocation: whether it returned at all,
\* the status it wrote to info and the value it wrote to work[0].
Resp(c, i, w) == [crashed |-> c, info |-> i, ws |-> w]
QueryAnswers == {Resp(FALSE, i, w) : i \in InfoVals, w \in WorkVals}
ExecAnswers == {Resp(FALSE, i, ZeroWork) : i \in InfoVals}
Crash == Resp(TRUE, 0, ZeroWork)

NoCall == [calls |-> <<>>, resps |-> <<>>, result |-> NoResult]

\* The kernel is a function of its arguments: an invocation whose arguments
\* the first call already made is answered as it was then.
Answers(args, all) ==
  IF phase = 2 /\ \E i \in 1 .. Len(first.calls) : first.calls[i] = args
  THEN {first.resps[i] : i \in {j \in 1 .. Len(first.calls) : first.calls[j] = args}}
  ELSE all

\* The arguments of $gesvd(ju as u8, jvt as u8, m, n, &mut a, m, &mut s, u, m,
\* vt, n, &mut work, lwork, [&mut rwork,] &mut info).
GesvdArgs(wk, lw) ==
  [jobu |-> ju, jobvt |-> jvt, m |-> m, n |-> n, a |-> a, lda |-> m, s |-> s,
   u |-> u, ldu |-> m, vt |-> vt, ldvt |-> n, work |-> wk, lwork |-> lw,
   rwork |-> rwork]

\* A factor buffer shorter than the ld * d elements the kernel writes: the
\* execution then writes out of bounds (undefined behaviour).
Undersized(args) ==
  \/ args.jobu = All /\ args.u.len # WMul(args.ldu, args.m)
  \/ args.jobvt = All /\ args.vt.len # WMul(args.ldvt, args.n)

\* Mutants of the flag resolution: the row-major swap left out.
ResolveJuNoSwap(lay, cu, cvt) == from_bool(cu)
ResolveJvtNoSwap(lay, cu, cvt) == from_bool(cvt)

\* ju and jvt: the flag swap under row-major layout.
ResolveJu(lay, cu, cvt) == IF lay.tag = "F" THEN from_bool(cu) ELSE from_bool(cvt)
ResolveJvt(lay, cu, cvt) == IF lay.tag = "F" THEN from_bool(cvt) ELSE from_bool(cu)

\* Mutant of the real scratch array: k elements instead of 5 * k.
AllocRworkK(sc, k) == IF IsComplex(sc) THEN ZeroVec(W(k)) ELSE NoneVec

\* let mut rwork = vec![Self::Real::zero(); 5 * k as usize] (complex only).
AllocRwork(sc, k) == IF IsComplex(sc) THEN ZeroVec(FiveTimes(k)) ELSE NoneVec

\* Mutant of the returned value: the output swap left out.
OutputNoSwap(lay, sv, uv, vtv) ==
  [NoResult EXCEPT !.kind = "Ok", !.s = sv, !.u = uv, !.vt = vtv]

\* match l { F => Ok(SVDOutput { s, u, vt }), C => Ok(SVDOutput { s, u: vt, vt: u }) }
Output(lay, sv, uv, vtv) ==
  IF lay.tag = "F"
  THEN [NoResult EXCEPT !.kind = "Ok", !.s = sv, !.u = uv, !.vt = vtv]
  ELSE [NoResult EXCEPT !.kind = "Ok", !.s = sv, !.u = vtv, !.vt = uv]

Locals0 ==
  /\ pc = "start"
  /\ ju = No /\ jvt = No /\ m = 0 /\ n = 0
  /\ u = NoneVec /\ vt = NoneVec /\ s = NoneVec /\ rwork = NoneVec
  /\ info = 0 /\ work_size = ZeroWork /\ work = NoneVec /\ lwork = W(0)
  /\ calls = <<>> /\ resps = <<>> /\ result = NoResult

Init ==
  /\ scalar \in Scalars
  /\ checked \in BOOLEAN
  /\ l \in Layouts
  /\ calc_u \in BOOLEAN
  /\ calc_vt \in BOOLEAN
  /\ a = "input"
  /\ phase = 1
  /\ first = NoCall
  /\ Locals0

Inputs == << scalar, checked, l, calc_u, calc_vt, phase, first >>

\* Lines 56-78 (real) / 142-166 (complex): flags, dimensions, output buffers.
Resolve ==
  /\ pc = "start"
  /\ LET fu == ResolveJu(l, calc_u, calc_vt)
         fvt == ResolveJvt(l, calc_u, calc_vt)
         mm == Lda(l)
         nn == LayoutLen(l)
         ua == AllocFactor(fu, mm, checked, ElemSize(scalar))
         va == AllocFactor(fvt, nn, checked, ElemSize(scalar))
         k == Min(mm, nn)
     IN  /\ ju' = fu /\ jvt' = fvt /\ m' = mm /\ n' = nn
         /\ IF ~ua.ok
            THEN /\ pc' = "done" /\ result' = Panic
                 /\ UNCHANGED << u, vt, s, rwork >>
            ELSE IF ~va.ok
            THEN /\ pc' = "done" /\ result' = Panic
                 /\ u' = ua.vec
                 /\ UNCHANGED << vt, s, rwork >>
            ELSE /\ pc' = "query" /\ UNCHANGED result
                 /\ u' = ua.vec /\ vt' = va.vec
                 /\ s' = ZeroVec(W(k))
                 /\ rwork' = AllocRwork(scalar, k)
  /\ UNCHANGED << Inputs, a, info, work_size, work, lwork, calls, resps >>

\* Mutant of the query: the scratch buffer's length passed instead of -1.
QueryWithLength ==
  /\ pc = "query"
  /\ LET args == GesvdArgs(ZeroVec(W(1)), << 1, 0, 0, 0 >>)
     IN  \E r \in Answers(args, QueryAnswers) :
           /\ calls' = Append(calls, args)
           /\ resps' = Append(resps, r)
           /\ info' = r.info
           /\ work_size' = r.ws
  /\ pc' = "query_ret"
  /\ UNCHANGED << Inputs, a, ju, jvt, m, n, u, vt, s, rwork, work, lwork, result >>

\* Lines 81-98 / 169-187: the workspace query.
Query ==
  /\ pc = "query"
  /\ LET args == GesvdArgs(ZeroVec(W(1)), MinusOne)
     IN  \E r \in Answers(args, QueryAnswers) :
           /\ calls' = Append(calls, args)
           /\ resps' = Append(resps, r)
           /\ info' = r.info
           /\ work_size' = r.ws
  /\ pc' = "query_ret"
  /\ UNCHANGED << Inputs, a, ju, jvt, m, n, u, vt, s, rwork, work, lwork, result >>

\* Mutant of the query's status check: the status is not looked at.
CheckQueryIgnored ==
  /\ pc = "query_ret"
  /\ pc' = "alloc_work"
  /\ UNCHANGED << Inputs, a, ju, jvt, m, n, u, vt, s, rwork, info, work_size,
                  work, lwork, calls, resps, result >>

\* Line 99 / 188: info.as_lapack_result()?
CheckQuery ==
  /\ pc = "query_ret"
  /\ LET r == as_lapack_result(info)
     IN  IF r.ok THEN pc' = "alloc_work" /\ UNCHANGED result
         ELSE pc' = "done" /\ result' = Err(r.err)
  /\ UNCHANGED << Inputs, a, ju, jvt, m, n, u, vt, s, rwork, info, work_size,
                  work, lwork, calls, resps >>

\* Lines 102-103 / 191-192: lwork and the scratch buffer.
AllocWork ==
  /\ pc = "alloc_work"
  /\ LET c == to_usize(work_size)
     IN  IF c.some /\ CapacityOk(c.val, ElemSize(scalar))
         THEN /\ lwork' = c.val
              /\ work' = ZeroVec(c.val)
              /\ pc' = "exec"
              /\ UNCHANGED result
         ELSE /\ pc' = "done" /\ result' = Panic
              /\ lwork' = (IF c.some THEN c.val ELSE lwork)
              /\ UNCHANGED work
  /\ UNCHANGED << Inputs, a, ju, jvt, m, n, u, vt, s, rwork, info, work_size,
                  calls, resps >>

\* Lines 104-119 / 193-209: the execution.
Exec ==
  /\ pc = "exec"
  /\ LET args == GesvdArgs(work, UsizeAsI32(lwork))
         all == ExecAnswers \cup (IF Undersized(args) THEN {Crash} ELSE {})
     IN  \E r \in Answers(args, all) :
           /\ calls' = Append(calls, args)
           /\ resps' = Append(resps, r)
           /\ IF r.crashed
              THEN /\ pc' = "done" /\ result' = Abort
                   /\ UNCHANGED << info, a, s, u, vt >>
              ELSE /\ pc' = "exec_ret" /\ UNCHANGED result
                   /\ info' = r.info
                   /\ a' = "overwritten"
                   /\ s' = Filled(s, "S")
                   /\ u' = Filled(u, "U")
                   /\ vt' = Filled(vt, "Vt")
  /\ UNCHANGED << Inputs, ju, jvt, m, n, rwork, work_size, work, lwork >>

\* Mutant of the return: the execution's status is not looked at.
ReturnUnchecked ==
  /\ pc = "exec_ret"
  /\ result' = Output(l, s, u, vt)
  /\ pc' = "done"
  /\ UNCHANGED << Inputs, a, ju, jvt, m, n, u, vt, s, rwork, info, work_size,
                  work, lwork, calls, resps >>

\* Lines 120-124 / 210-214: the status check and the returned value.
Return ==
  /\ pc = "exec_ret"
  /\ LET r == as_lapack_result(info)
     IN  result' = (IF r.ok THEN Output(l, s, u, vt) ELSE Err(r.err))
  /\ pc' = "done"
  /\ UNCHANGED << Inputs, a, ju, jvt, m, n, u, vt, s, rwork, info, work_size,
                  work, lwork, calls, resps >>

Next == Resolve \/ Query \/ CheckQuery \/ AllocWork \/ Exec \/ Return

Spec == Init /\ [][Next]_vars

\* The same logical matrix under the other layout: the caller decomposes the
\* transposed description (c x r in the other storage order) of the same
\* buffer, with the two requests exchanged.
Mirror(lay) ==
  [tag |-> IF lay.tag = "F" THEN "C" ELSE "F", rows |-> lay.cols, cols |-> lay.rows]

CallMirrored ==
  /\ pc = "done" /\ phase = 1
  /\ phase' = 2
  /\ first' = [calls |-> calls, resps |-> resps, result |-> result]
  /\ l' = Mirror(l)
  /\ calc_u' = calc_vt
  /\ calc_vt' = calc_u
  /\ a' = "input"
  /\ pc' = "start"
  /\ ju' = No /\ jvt' = No /\ m' = 0 /\ n' = 0
  /\ u' = NoneVec /\ vt' = NoneVec /\ s' = NoneVec /\ rwork' = NoneVec
  /\ info' = 0 /\ work_size' = ZeroWork /\ work' = NoneVec /\ lwork' = W(0)
  /\ calls' = <<>> /\ resps' = <<>> /\ result' = NoResult
  /\ UNCHANGED << scalar, checked >>

NextPair == Next \/ CallMirrored

SpecPair == Init /\ [][NextPair]_vars

\* ------------------------------------------------------------- properties
Done == pc = "done"
Succeeded == Done /\ result.kind = "Ok"
Returned(i) == i <= Len(resps) /\ ~resps[i].crashed
IsQuery(c) == c.lwork = MinusOne /\ c.work = ZeroVec(W(1))

\* C1: on every successful call the returned u is present iff U was
\* requested and the returned vt is present iff Vt was requested, under
\* both layouts.
C1_FactorsPresentIffRequested ==
  Succeeded => /\ result.u.some <=> calc_u
               /\ result.vt.some <=> calc_vt

C1_Witness ==
  /\ Succeeded /\ l.tag = "C" /\ calc_u /\ ~calc_vt
  /\ l.rows # l.cols /\ result.u.some /\ ~result.vt.some

\* C2: on every successful call the singular values have length
\* min(rows, cols), a returned u has rows*rows elements and a returned vt
\* has cols*cols elements, for every i32 dimension.
C2_OutputSizes ==
  Succeeded =>
    /\ result.s.some /\ result.s.len = W(Min(l.rows, l.cols))
    /\ result.u.some => result.u.len = WMul(l.rows, l.rows)
    /\ result.vt.some => result.vt.len = WMul(l.cols, l.cols)

\* C3: a returned status is translated the same way after either invocation
\* (negative: InvalidArgument with position -status, positive:
\* ConvergenceFailure with count status), an SVDOutput is returned iff both
\* invocations reported status zero, and an error carries no output.
C3_StatusTranslation ==
  Done =>
    /\ result.kind = "Ok" <=>
         /\ Len(resps) = 2
         /\ \A i \in 1 .. 2 : Returned(i) /\ resps[i].info = 0
    /\ \A i \in 1 .. Len(resps) :
         /\ (Returned(i) /\ resps[i].info < 0) =>
              result = Err([type |-> "InvalidArgument", code |-> -resps[i].info])
         /\ (Returned(i) /\ resps[i].info > 0) =>
              result = Err([type |-> "ConvergenceFailure", code |-> resps[i].info])

C3_Witness ==
  /\ Done /\ Len(resps) = 2 /\ Returned(2) /\ resps[2].info = -2
  /\ result.kind = "Err" /\ result.err.code = 2 /\ u.some /\ u.fill = "U"

\* C4: when the query reports a non-zero status the call returns the error
\* with no scratch buffer allocated, no second invocation and no output.
C4_QueryFailureAborts ==
  (Returned(1) /\ resps[1].info # 0) =>
    /\ Len(calls) = 1
    /\ ~work.some
    /\ pc \in {"query_ret", "done"}
    /\ result.kind \in {"none", "Err"}
    /\ Done => result.kind = "Err"

C4_Witness ==
  Done /\ Len(calls) = 1 /\ Returned(1) /\ resps[1].info > 0 /\ result.kind = "Err"

\* C5 as stated, on the calls that return (an SVDOutput or a typed error):
\* every call performs exactly two invocations, the query first and the
\* execution second.
C5_ExactlyTwoInvocations ==
  (Done /\ result.kind \in {"Ok", "Err"}) =>
    /\ Len(calls) = 2
    /\ IsQuery(calls[1])
    /\ ~IsQuery(calls[2])

\* C5 as amended: at most two invocations, the query first and the execution
\* second and only after the query returned status zero; both are made
\* exactly when the query reported zero and the scratch buffer was allocated.
C5_QueryThenExecution ==
  /\ Len(calls) <= 2
  /\ Len(calls) >= 1 => IsQuery(calls[1])
  /\ Len(calls) = 2 =>
       /\ Returned(1) /\ resps[1].info = 0
       /\ calls[2].work = ZeroVec(lwork) /\ calls[2].lwork = UsizeAsI32(lwork)
  /\ Done => (Len(calls) = 2 <=>
                (Returned(1) /\ resps[1].info = 0 /\ result.kind # "panic"))

C5_Witness ==
  Done /\ Len(calls) = 2 /\ IsQuery(calls[1]) /\ calls[2].work.len = W(1)
       /\ calls[2].lwork = << 1, 0, 0, 0 >>

\* C6: every call ends with a returned SVDOutput or a returned typed error;
\* no call aborts.
C6_NoAbort ==
  Done => result.kind \in {"Ok", "Err"}

\* C7: the call on a row-major r x c layout with requests (wantU, wantVt)
\* and the call on the column-major c x r layout with requests
\* (wantVt, wantU) on the same buffer make the same kernel invocations and
\* return the same singular values with u and vt exchanged.
C7_LayoutEquivalence ==
  (phase = 2 /\ Done) =>
    /\ calls = first.calls
    /\ result.kind = first.result.kind
    /\ result.err = first.result.err
    /\ result.s = first.result.s
    /\ result.u = first.result.vt
    /\ result.vt = first.result.u

C7_Witness ==
  /\ phase = 2 /\ Succeeded /\ l.tag = "F" /\ l.rows # l.cols
  /\ calc_u /\ ~calc_vt /\ result.u.some /\ first.result.vt.fill = "U"

\* C8: both invocations receive the resolved flags (swapped under
\* row-major), m = leading dimension, n = other dimension, lda = ldu = m,
\* ldvt = n, and differ only in the scratch buffer and its length.
C8_ResolvedArguments ==
  /\ \A i \in 1 .. Len(calls) :
       LET c == calls[i]
       IN  /\ c.jobu = All <=> (IF l.tag = "F" THEN calc_u ELSE calc_vt)
           /\ c.jobvt = All <=> (IF l.tag = "F" THEN calc_vt ELSE calc_u)
           /\ c.jobu \in {All, No} /\ c.jobvt \in {All, No}
           /\ c.m = (IF l.tag = "F" THEN l.rows ELSE l.cols)
           /\ c.n = (IF l.tag = "F" THEN l.cols ELSE l.rows)
           /\ c.lda = c.m /\ c.ldu = c.m /\ c.ldvt = c.n
  /\ Len(calls) = 2 =>
       [calls[2] EXCEPT !.work = calls[1].work, !.lwork = calls[1].lwork] = calls[1]

C8_Witness ==
  /\ Len(calls) = 2 /\ l.tag = "C" /\ calc_u /\ ~calc_vt /\ l.rows # l.cols
  /\ calls[2].jobu = No /\ calls[2].jobvt = All /\ calls[2].m = l.cols

\* C9: the execution's scratch buffer has the length the kernel reported
\* and the scratch-length argument equals that length, for every length.
C9_ScratchLength ==
  Len(calls) = 2 =>
    /\ calls[2].work.some
    /\ calls[2].work.len = resps[1].ws.mag
    /\ I32AsUsize(calls[2].lwork) = calls[2].work.len

\* C10: on the complex path one real scratch array of length 5 * min(m, n)
\* exists before the query and is passed unchanged to both invocations, the
\* second of which is made only after the first reported status zero, and
\* an output is returned only if the second reported zero as well.
C10_RealScratch ==
  IsComplex(scalar) =>
    /\ pc \in {"query", "query_ret", "alloc_work", "exec", "exec_ret"} =>
         rwork = ZeroVec(WMul(5, Min(m, n)))
    /\ \A i \in 1 .. Len(calls) :
         calls[i].rwork = ZeroVec(WMul(5, Min(calls[i].m, calls[i].n)))
    /\ Len(calls) = 2 =>
         /\ calls[1].rwork = calls[2].rwork
         /\ Returned(1) /\ resps[1].info = 0
    /\ Succeeded => Returned(2) /\ resps[2].info = 0

C10_Witness ==
  /\ IsComplex(scalar) /\ Succeeded /\ Len(calls) = 2 /\ Min(m, n) = 1
  /\ calls[2].rwork.len = W(5) /\ calls[2].work.len = W(0)

====
